---- MODULE Spec2Model ----
(***************************************************************************)
(* Model of crates/ra_ide/src/expand_macro.rs: the "expand macro" command. *)
(*   expand_macro        locates the macro call under the cursor,          *)
(*   expand_macro_recur  expands it recursively (modelled with an explicit *)
(*                       call stack, one frame per activation),            *)
(*   insert_whitespaces  renders the token stream of the expansion.        *)
(***************************************************************************)
EXTENDS Integers, Sequences, FiniteSets, TLC

VARIABLES
    db,          \* the macro substitution service: macro name -> one-level expansion or None
    position,    \* FilePosition: the offset of the cursor in the file
    order,       \* the order in which `children` yields the macro calls: "pre" is
                 \* the code's (descendants is preorder); "rev" occurs under SpecOrd only
    pc,          \* where expand_macro stands: "start", "recur", "fmt", "done"
    stack,       \* activations of expand_macro_recur, innermost last
    ret,         \* value returned by the activation that returned last
    syn,         \* the token stream of the tree handed to insert_whitespaces
    token_iter,  \* insert_whitespaces: tokens not consumed yet
    indent,      \* insert_whitespaces: indentation depth
    last,        \* insert_whitespaces: kind of the previous token, or NoKind
    res,         \* insert_whitespaces: text emitted so far, as a sequence of pieces
    result       \* Option<ExpandedMacro> returned by expand_macro

vars == <<db, position, order, pc, stack, ret, syn, token_iter, indent, last, res, result>>

(***************************************************************************)
(* Bounds of the model.                                                    *)
(***************************************************************************)
\* deepest call stack of expand_macro_recur the model follows
MaxDepth == 4
\* longest arbitrary token stream handed to insert_whitespaces
MaxLen == 5

Macros == {"foo", "bar", "baz"}

(***************************************************************************)
(* Syntax trees. A node or token is a record; c holds the children.        *)
(***************************************************************************)
Tok(kind, text) == [k |-> "token", kind |-> kind, text |-> text, c |-> <<>>]
Node(kind, cs) == [k |-> "node", kind |-> kind, text |-> "", c |-> cs]
\* Option::None of a tree
None == [k |-> "none", kind |-> "", text |-> "", c |-> <<>>]

\* `name!()`: a MACRO_CALL node over its name and its (empty) token tree
MacroCall(name) ==
    Node("MACRO_CALL", <<Tok("IDENT", name), Tok("BANG", "!"),
                         Tok("L_PAREN", "("), Tok("R_PAREN", ")")>>)

MacroName(call) == call.c[1].text

\* A SyntaxNode: a place (path of child indices) in one tree. Two SyntaxNodes
\* are the same node when they are the same place of the same tree.
SyntaxNode(tree, path, node) == [tree |-> tree, path |-> path, node |-> node]
Root(tree, node) == SyntaxNode(tree, <<>>, node)
ChildAt(n, i) == SyntaxNode(n.tree, Append(n.path, i), n.node.c[i])
Key(n) == <<n.tree, n.path>>

\* Option::None of a SyntaxNode
NoNode == SyntaxNode("", <<>>, None)

Reverse(s) == [i \in 1..Len(s) |-> s[Len(s) + 1 - i]]

\* SyntaxNode::descendants: the nodes (not the tokens) of the subtree in
\* preorder, the node itself first
RECURSIVE descendants(_), descendants_from(_, _)
descendants(n) == <<n>> \o descendants_from(n, 1)
descendants_from(n, i) ==
    IF i > Len(n.node.c) THEN <<>>
    ELSE (IF n.node.c[i].k = "node" THEN descendants(ChildAt(n, i)) ELSE <<>>)
         \o descendants_from(n, i + 1)

\* ast::MacroCall::cast
IsMacroCall(n) == n.node.k = "node" /\ n.node.kind = "MACRO_CALL"

\* preorder_with_tokens filtered to the tokens: the token stream of a tree
RECURSIVE tokens_of(_), tokens_from(_, _)
tokens_of(node) == IF node.k = "token" THEN <<node>> ELSE tokens_from(node, 1)
tokens_from(node, i) ==
    IF i > Len(node.c) THEN <<>>
    ELSE tokens_of(node.c[i]) \o tokens_from(node, i + 1)

\* algo::replace_descendants: rebuild `parent`, swapping every descendant
\* (never `parent` itself) that `map` knows for its replacement
RECURSIVE replace_descendants(_, _)
replace_descendants(parent, map) ==
    [parent.node EXCEPT !.c =
        [i \in 1..Len(parent.node.c) |->
            LET element == ChildAt(parent, i) IN
            IF Key(element) \in DOMAIN map THEN map[Key(element)]
            ELSE IF element.node.k = "token" THEN element.node
            ELSE replace_descendants(element, map)]]

\* FxHashMap::insert
Insert(map, key, value) ==
    [x \in (DOMAIN map) \cup {key} |-> IF x = key THEN value ELSE map[x]]

(***************************************************************************)
(* expand_macro_recur, one activation per stack frame.                     *)
(***************************************************************************)
NewFrame(macro_call) ==
    [macro_call |-> macro_call, pc |-> "expand", expanded |-> NoNode,
     children |-> <<>>, child |-> NoNode, replaces |-> <<>>, visited |-> <<>>]

Top == stack[Len(stack)]
Pop == SubSeq(stack, 1, Len(stack) - 1)
SetTop(f) == [stack EXCEPT ![Len(stack)] = f]

\* line 37: sema.expand(macro_call), the substitution service
sema_expand(macro_call) == db[MacroName(macro_call)]

\* line 39: expanded.descendants().filter_map(ast::MacroCall::cast); the
\* iterator owns a handle of the tree it was made from, so a later assignment
\* to `expanded` does not change what it yields
macro_calls(expanded) ==
    LET pre == SelectSeq(descendants(expanded), IsMacroCall)
    IN  IF order = "pre" THEN pre ELSE Reverse(pre)

\* mutant: the root is never recognised, so it lands in the replacement mapping
node_eq_never(a, b) == FALSE

\* line 47: expanded == *child.syntax()
node_eq(a, b) == a.tree = b.tree /\ a.path = b.path

\* mutant: a nested failure discards the parent's expansion (a `?` on line 43)
after_child_fail(f, r) ==
    IF r = None THEN [f EXCEPT !.pc = "loop", !.expanded = Root("new", None)]
    ELSE IF f.expanded.tree = f.child.tree /\ f.expanded.path = f.child.path
         THEN [f EXCEPT !.pc = "loop", !.expanded = Root("new", r)]
         ELSE [f EXCEPT !.pc = "loop",
                        !.replaces = Insert(f.replaces, Key(f.child), r)]

\* mutant: no `else` on line 49, the root is replaced and recorded as well
after_child_no_else(f, r) ==
    IF r = None THEN [f EXCEPT !.pc = "loop"]
    ELSE IF f.expanded.tree = f.child.tree /\ f.expanded.path = f.child.path
         THEN [f EXCEPT !.pc = "loop", !.expanded = Root("new", r),
                        !.replaces = Insert(f.replaces, Key(f.child), r)]
         ELSE [f EXCEPT !.pc = "loop",
                        !.replaces = Insert(f.replaces, Key(f.child), r)]

\* mutant: the calls are enumerated again from the tree that replaced the root
after_child_reenumerate(f, r) ==
    IF r = None THEN [f EXCEPT !.pc = "loop"]
    ELSE IF f.expanded.tree = f.child.tree /\ f.expanded.path = f.child.path
         THEN [f EXCEPT !.pc = "loop", !.expanded = Root("new", r),
                        !.children = SelectSeq(descendants(Root("new", r)), IsMacroCall)]
         ELSE [f EXCEPT !.pc = "loop",
                        !.replaces = Insert(f.replaces, Key(f.child), r)]

\* lines 43-52: the loop body once the recursive call has returned r
after_child(f, r) ==
    IF r = None THEN [f EXCEPT !.pc = "loop"]
    ELSE IF node_eq(f.expanded, f.child)
         THEN [f EXCEPT !.pc = "loop", !.expanded = Root("new", r)]
         ELSE [f EXCEPT !.pc = "loop",
                        !.replaces = Insert(f.replaces, Key(f.child), r)]

\* line 55: the value the activation returns
recur_result(f) == replace_descendants(f.expanded, f.replaces)

\* lines 37-40: one-level expansion; failure returns None at once
recur_expand ==
    /\ pc = "recur" /\ stack # <<>> /\ Top.pc = "expand"
    /\ LET e == sema_expand(Top.macro_call) IN
       IF e = None
       THEN /\ stack' = Pop
            /\ ret' = None
       ELSE /\ stack' = SetTop([Top EXCEPT !.pc = "loop",
                                           !.expanded = Root("exp", e),
                                           !.children = macro_calls(Root("exp", e))])
            /\ ret' = ret
    /\ UNCHANGED <<db, position, order, pc, syn, token_iter, indent, last, res, result>>

\* mutant: a depth limit, children below the second level are skipped
recur_call_limited ==
    /\ pc = "recur" /\ stack # <<>> /\ Top.pc = "loop"
    /\ Top.children # <<>>
    /\ IF Len(stack) < 2
       THEN stack' = Append(SetTop([Top EXCEPT !.pc = "wait",
                                               !.children = Tail(Top.children),
                                               !.child = Head(Top.children),
                                               !.visited = Append(Top.visited,
                                                                  Key(Head(Top.children)))]),
                            NewFrame(Head(Top.children).node))
       ELSE stack' = SetTop([Top EXCEPT !.children = Tail(Top.children)])
    /\ UNCHANGED <<db, position, order, pc, ret, syn, token_iter, indent, last, res, result>>

\* lines 42-43: the loop takes the next child and calls itself on it
recur_call ==
    /\ pc = "recur" /\ stack # <<>> /\ Top.pc = "loop"
    /\ Top.children # <<>>
    /\ Len(stack) < MaxDepth
    /\ LET child == Head(Top.children) IN
       stack' = Append(SetTop([Top EXCEPT !.pc = "wait",
                                          !.children = Tail(Top.children),
                                          !.child = child,
                                          !.visited = Append(Top.visited, Key(child))]),
                       NewFrame(child.node))
    /\ UNCHANGED <<db, position, order, pc, ret, syn, token_iter, indent, last, res, result>>

\* lines 43-52: the recursive call has returned into the loop
recur_resume ==
    /\ pc = "recur" /\ stack # <<>> /\ Top.pc = "wait"
    /\ stack' = SetTop(after_child(Top, ret))
    /\ UNCHANGED <<db, position, order, pc, ret, syn, token_iter, indent, last, res, result>>

\* line 55: the loop is over; replace the recorded descendants and return
recur_return ==
    /\ pc = "recur" /\ stack # <<>> /\ Top.pc = "loop"
    /\ Top.children = <<>>
    /\ ret' = recur_result(Top)
    /\ stack' = Pop
    /\ UNCHANGED <<db, position, order, pc, syn, token_iter, indent, last, res, result>>

(***************************************************************************)
(* insert_whitespaces.                                                     *)
(***************************************************************************)
\* Option::None of a SyntaxKind
NoKind == "NONE"

\* SyntaxKind::is_keyword, is_literal, is_punct for the kinds of the model
is_keyword(k) == k \in {"FN_KW", "LET_KW"}
is_literal(k) == k \in {"INT_NUMBER"}
is_punct(k) ==
    k \in {"SEMI", "L_PAREN", "R_PAREN", "L_CURLY", "R_CURLY", "EQ", "FAT_ARROW",
           "THIN_ARROW", "PLUS", "BANG"}

\* lines 109-111
is_text(k) == is_keyword(k) \/ is_literal(k) \/ k = "IDENT"

\* usize::saturating_sub
saturating_sub(a, b) == IF a < b THEN 0 ELSE a - b

\* mutant: one blank per level
repeat_single(n) == [i \in 1..n |-> " "]

\* "  ".repeat(n), one piece per blank
repeat(n) == [i \in 1..(2 * n) |-> " "]

\* mutant: every opening brace opens a block, the empty-block test is gone
emit_always_open(token, next, lst, ind) ==
    LET k == token.kind IN
    IF is_text(k) /\ (IF next = NoKind THEN TRUE ELSE ~is_punct(next))
    THEN [out |-> <<token.text, " ">>, indent |-> ind]
    ELSE IF k = "L_CURLY"
    THEN [out |-> (IF (IF lst = NoKind THEN FALSE ELSE is_text(lst)) THEN <<" ">> ELSE <<>>)
                  \o <<"{", "\n">> \o repeat(ind + 1),
          indent |-> ind + 1]
    ELSE IF k = "R_CURLY" /\ (IF lst = NoKind THEN TRUE ELSE lst # "L_CURLY")
    THEN [out |-> <<"\n">> \o repeat(saturating_sub(ind, 1)) \o <<"}">>,
          indent |-> saturating_sub(ind, 1)]
    ELSE IF k = "R_CURLY" THEN [out |-> <<"}", "\n">> \o repeat(ind), indent |-> ind]
    ELSE IF k = "SEMI" THEN [out |-> <<";", "\n">> \o repeat(ind), indent |-> ind]
    ELSE IF k = "THIN_ARROW" THEN [out |-> <<" ", "->", " ">>, indent |-> ind]
    ELSE IF k = "EQ" THEN [out |-> <<" ", "=", " ">>, indent |-> ind]
    ELSE IF k = "FAT_ARROW" THEN [out |-> <<" ", "=>", " ">>, indent |-> ind]
    ELSE [out |-> <<token.text>>, indent |-> ind]

\* mutant: a text-like token with no next token gets no blank (default false)
emit_no_trailing(token, next, lst, ind) ==
    LET k == token.kind IN
    IF is_text(k) /\ (IF next = NoKind THEN FALSE ELSE ~is_punct(next))
    THEN [out |-> <<token.text, " ">>, indent |-> ind]
    ELSE IF k = "L_CURLY" /\ (IF next = NoKind THEN TRUE ELSE next # "R_CURLY")
    THEN [out |-> (IF (IF lst = NoKind THEN FALSE ELSE is_text(lst)) THEN <<" ">> ELSE <<>>)
                  \o <<"{", "\n">> \o repeat(ind + 1),
          indent |-> ind + 1]
    ELSE IF k = "R_CURLY" /\ (IF lst = NoKind THEN TRUE ELSE lst # "L_CURLY")
    THEN [out |-> <<"\n">> \o repeat(saturating_sub(ind, 1)) \o <<"}">>,
          indent |-> saturating_sub(ind, 1)]
    ELSE IF k = "R_CURLY" THEN [out |-> <<"}", "\n">> \o repeat(ind), indent |-> ind]
    ELSE IF k = "SEMI" THEN [out |-> <<";", "\n">> \o repeat(ind), indent |-> ind]
    ELSE IF k = "THIN_ARROW" THEN [out |-> <<" ", "->", " ">>, indent |-> ind]
    ELSE IF k = "EQ" THEN [out |-> <<" ", "=", " ">>, indent |-> ind]
    ELSE IF k = "FAT_ARROW" THEN [out |-> <<" ", "=>", " ">>, indent |-> ind]
    ELSE [out |-> <<token.text>>, indent |-> ind]

\* mutant: every closing brace dedents, the previous-token test is gone
emit_always_dedent(token, next, lst, ind) ==
    LET k == token.kind IN
    IF is_text(k) /\ (IF next = NoKind THEN TRUE ELSE ~is_punct(next))
    THEN [out |-> <<token.text, " ">>, indent |-> ind]
    ELSE IF k = "L_CURLY" /\ (IF next = NoKind THEN TRUE ELSE next # "R_CURLY")
    THEN [out |-> (IF (IF lst = NoKind THEN FALSE ELSE is_text(lst)) THEN <<" ">> ELSE <<>>)
                  \o <<"{", "\n">> \o repeat(ind + 1),
          indent |-> ind + 1]
    ELSE IF k = "R_CURLY"
    THEN [out |-> <<"\n">> \o repeat(saturating_sub(ind, 1)) \o <<"}">>,
          indent |-> saturating_sub(ind, 1)]
    ELSE IF k = "R_CURLY" THEN [out |-> <<"}", "\n">> \o repeat(ind), indent |-> ind]
    ELSE IF k = "SEMI" THEN [out |-> <<";", "\n">> \o repeat(ind), indent |-> ind]
    ELSE IF k = "THIN_ARROW" THEN [out |-> <<" ", "->", " ">>, indent |-> ind]
    ELSE IF k = "EQ" THEN [out |-> <<" ", "=", " ">>, indent |-> ind]
    ELSE IF k = "FAT_ARROW" THEN [out |-> <<" ", "=>", " ">>, indent |-> ind]
    ELSE [out |-> <<token.text>>, indent |-> ind]

\* lines 85-102: what one token adds to res and the indentation after it.
\* next and lst are the kinds of the next and the previous token, or NoKind.
emit(token, next, lst, ind) ==
    LET k == token.kind IN
    IF is_text(k) /\ (IF next = NoKind THEN TRUE ELSE ~is_punct(next))
    THEN [out |-> <<token.text, " ">>, indent |-> ind]
    ELSE IF k = "L_CURLY" /\ (IF next = NoKind THEN TRUE ELSE next # "R_CURLY")
    THEN [out |-> (IF (IF lst = NoKind THEN FALSE ELSE is_text(lst)) THEN <<" ">> ELSE <<>>)
                  \o <<"{", "\n">> \o repeat(ind + 1),
          indent |-> ind + 1]
    ELSE IF k = "R_CURLY" /\ (IF lst = NoKind THEN TRUE ELSE lst # "L_CURLY")
    THEN [out |-> <<"\n">> \o repeat(saturating_sub(ind, 1)) \o <<"}">>,
          indent |-> saturating_sub(ind, 1)]
    ELSE IF k = "R_CURLY" THEN [out |-> <<"}", "\n">> \o repeat(ind), indent |-> ind]
    ELSE IF k = "SEMI" THEN [out |-> <<";", "\n">> \o repeat(ind), indent |-> ind]
    ELSE IF k = "THIN_ARROW" THEN [out |-> <<" ", "->", " ">>, indent |-> ind]
    ELSE IF k = "EQ" THEN [out |-> <<" ", "=", " ">>, indent |-> ind]
    ELSE IF k = "FAT_ARROW" THEN [out |-> <<" ", "=>", " ">>, indent |-> ind]
    ELSE [out |-> <<token.text>>, indent |-> ind]

\* token_iter.peek().map(|it| it.kind())
peek(iter) == IF iter = <<>> THEN NoKind ELSE Head(iter).kind

\* lines 78-105: one iteration of the loop over the tokens
insert_whitespaces_step ==
    /\ pc = "fmt" /\ token_iter # <<>>
    /\ LET token == Head(token_iter)
           e == emit(token, peek(Tail(token_iter)), last, indent)
       IN  /\ res' = res \o e.out
           /\ indent' = e.indent
           /\ last' = token.kind
           /\ token_iter' = Tail(token_iter)
    /\ UNCHANGED <<db, position, order, pc, stack, ret, syn, result>>

(***************************************************************************)
(* expand_macro.                                                           *)
(***************************************************************************)
NoText == ""
NoResult == [some |-> FALSE, name |-> NoText, expansion |-> <<>>]

\* line 20: the parsed file, one entry per cursor offset: the NameRef at the
\* offset (or NoText) and the MacroCall enclosing it (or None)
File ==
    << [name_ref |-> NoText, macro_call |-> None],
       [name_ref |-> "x", macro_call |-> None],
       [name_ref |-> "foo", macro_call |-> MacroCall("foo")],
       [name_ref |-> "bar", macro_call |-> MacroCall("bar")],
       [name_ref |-> "baz", macro_call |-> MacroCall("baz")] >>

\* line 21: find_node_at_offset::<ast::NameRef>
find_node_at_offset(offset) == File[offset].name_ref
\* line 22: name_ref.syntax().ancestors().find_map(ast::MacroCall::cast)
enclosing_macro_call(offset) == File[offset].macro_call

\* mutant: a failed expansion still yields a pair, with an empty expansion
expand_macro_result_default(expanded, expansion) ==
    [some |-> TRUE, name |-> find_node_at_offset(position),
     expansion |-> IF expanded = None THEN <<>> ELSE expansion]

\* lines 24 and 30: the value of expand_macro given what expand_macro_recur
\* returned and what insert_whitespaces rendered
expand_macro_result(expanded, expansion) ==
    IF expanded = None THEN NoResult
    ELSE [some |-> TRUE, name |-> find_node_at_offset(position), expansion |-> expansion]

\* lines 19-24: locate the call; `?` returns None when there is none
expand_macro_locate ==
    /\ pc = "start"
    /\ IF find_node_at_offset(position) = NoText \/ enclosing_macro_call(position) = None
       THEN /\ pc' = "done"
            /\ result' = NoResult
            /\ stack' = stack
       ELSE /\ pc' = "recur"
            /\ result' = result
            /\ stack' = <<NewFrame(enclosing_macro_call(position))>>
    /\ UNCHANGED <<db, position, order, ret, syn, token_iter, indent, last, res>>

\* lines 24-29: expand_macro_recur has returned; `?`, then insert_whitespaces starts
expand_macro_format ==
    /\ pc = "recur" /\ stack = <<>>
    /\ IF ret = None
       THEN /\ pc' = "done"
            /\ result' = expand_macro_result(ret, <<>>)
            /\ UNCHANGED <<syn, token_iter, indent, last, res>>
       ELSE /\ pc' = "fmt"
            /\ syn' = tokens_of(ret)
            /\ token_iter' = tokens_of(ret)
            /\ indent' = 0
            /\ last' = NoKind
            /\ res' = <<>>
            /\ result' = result
    /\ UNCHANGED <<db, position, order, stack, ret>>

\* lines 107 and 30: insert_whitespaces returns res; expand_macro returns the pair
expand_macro_return ==
    /\ pc = "fmt" /\ token_iter = <<>>
    /\ pc' = "done"
    /\ result' = expand_macro_result(ret, res)
    /\ UNCHANGED <<db, position, order, stack, ret, syn, token_iter, indent, last, res>>

(***************************************************************************)
(* The substitution services and token streams the model runs on.          *)
(***************************************************************************)
\* `fn b(){}`: an expansion with no macro call in it
Leaf ==
    Node("MACRO_ITEMS",
         <<Node("FN_DEF", <<Tok("FN_KW", "fn"), Tok("IDENT", "b"),
                            Tok("L_PAREN", "("), Tok("R_PAREN", ")"),
                            Node("BLOCK", <<Tok("L_CURLY", "{"), Tok("R_CURLY", "}")>>)>>)>>)
\* an expansion that is exactly one macro call: the root is the call
RootCall(x) == MacroCall(x)
\* `x!(); { y!() }`: two calls at different depths
Stmts(x, y) ==
    Node("MACRO_STMTS",
         <<MacroCall(x), Tok("SEMI", ";"),
           Node("BLOCK_EXPR", <<Tok("L_CURLY", "{"), MacroCall(y), Tok("R_CURLY", "}")>>)>>)

Bodies ==
    {None, Leaf} \cup {RootCall(x) : x \in Macros}
                 \cup {Stmts(x, y) : x \in Macros, y \in Macros}

KindText(k) ==
    CASE k = "IDENT" -> "a"
      [] k = "L_CURLY" -> "{"
      [] k = "R_CURLY" -> "}"
      [] k = "SEMI" -> ";"
      [] k = "EQ" -> "="
      [] k = "LIFETIME" -> "'a"

FmtKinds == {"IDENT", "L_CURLY", "R_CURLY", "SEMI", "EQ", "LIFETIME"}

SeqsUpTo(S, n) == UNION {[1..m -> S] : m \in 0..n}

\* fn f ( ) { let a = 0 ; a + 10 }
FnStream ==
    <<Tok("FN_KW", "fn"), Tok("IDENT", "f"), Tok("L_PAREN", "("), Tok("R_PAREN", ")"),
      Tok("L_CURLY", "{"), Tok("LET_KW", "let"), Tok("IDENT", "a"), Tok("EQ", "="),
      Tok("INT_NUMBER", "0"), Tok("SEMI", ";"), Tok("IDENT", "a"), Tok("PLUS", "+"),
      Tok("INT_NUMBER", "10"), Tok("R_CURLY", "}")>>

Streams ==
    {[i \in 1..Len(ks) |-> Tok(ks[i], KindText(ks[i]))] : ks \in SeqsUpTo(FmtKinds, MaxLen)}
    \cup {FnStream}

(***************************************************************************)
(* Specifications.                                                         *)
(***************************************************************************)
InitCommon ==
    /\ stack = <<>>
    /\ ret = None
    /\ result = NoResult

\* the command started on a service drawn from `bodies`, at any cursor offset
InitWith(bodies, orders) ==
    /\ db \in [Macros -> bodies]
    /\ position \in 1..Len(File)
    /\ order \in orders
    /\ pc = "start"
    /\ syn = <<>> /\ token_iter = <<>> /\ indent = 0 /\ last = NoKind /\ res = <<>>
    /\ InitCommon

\* the command: any service, the calls of an expansion visited in preorder
Init == InitWith(Bodies, {"pre"})

Next ==
    \/ expand_macro_locate
    \/ recur_expand
    \/ recur_call
    \/ recur_resume
    \/ recur_return
    \/ expand_macro_format
    \/ insert_whitespaces_step
    \/ expand_macro_return

Spec == Init /\ [][Next]_vars

\* The command under weak fairness: the code is sequential, a step that can
\* be taken is taken. The services are those whose expansions are a single
\* call or call one macro twice.
LiveBodies ==
    {None, Leaf} \cup {RootCall(x) : x \in Macros} \cup {Stmts(x, x) : x \in Macros}

InitLive == InitWith(LiveBodies, {"pre"})

FairSpec == InitLive /\ [][Next]_vars /\ WF_vars(Next)

\* the command with the macro calls of an expansion visited in either order
InitOrd == InitWith(Bodies, {"pre", "rev"})

SpecOrd == InitOrd /\ [][Next]_vars

\* insert_whitespaces on its own: expand_macro from line 29 on, for any
\* token stream of the expanded tree
InitFmt ==
    /\ db = [m \in Macros |-> Leaf]
    /\ position = 3
    /\ order = "pre"
    /\ pc = "fmt"
    /\ stack = <<>>
    /\ syn \in Streams
    /\ ret = Node("MACRO_ITEMS", syn)
    /\ token_iter = syn
    /\ indent = 0 /\ last = NoKind /\ res = <<>>
    /\ result = NoResult

NextFmt ==
    \/ insert_whitespaces_step
    \/ expand_macro_return

SpecFmt == InitFmt /\ [][NextFmt]_vars

(***************************************************************************)
(* Vocabulary of the properties.                                           *)
(***************************************************************************)
Range(f) == {f[i] : i \in DOMAIN f}

\* the macro calls of a tree, as SyntaxNodes of the tree called `tree`
CallsOf(tree, node) == Range(SelectSeq(descendants(Root(tree, node)), IsMacroCall))

\* the subtree at a path
RECURSIVE NodeAt(_, _)
NodeAt(node, path) ==
    IF path = <<>> THEN node ELSE NodeAt(node.c[Head(path)], Tail(path))

\* the cursor is on a name inside a macro call
Located ==
    find_node_at_offset(position) # NoText /\ enclosing_macro_call(position) # None
\* the outermost call and its one-level expansion
TopCall == enclosing_macro_call(position)
TopExpansion == db[MacroName(TopCall)]
Expandable(call) == db[MacroName(call)] # None

\* the outermost expand_macro_recur has returned (its value is ret)
Returned == Located /\ stack = <<>> /\ pc \in {"recur", "fmt", "done"}

\* the macros a macro's one-level expansion calls, and those reached from them
Callees(m) == IF db[m] = None THEN {} ELSE {MacroName(n.node) : n \in CallsOf("exp", db[m])}
RECURSIVE Closure(_)
Closure(S) ==
    LET T == S \cup UNION {Callees(x) : x \in S}
    IN  IF T = S THEN S ELSE Closure(T)
ReachFrom(m) == Closure(Callees(m))
\* some chain of nested invocations starting at the outermost call is infinite
Diverges ==
    /\ Located
    /\ \E x \in {MacroName(TopCall)} \cup ReachFrom(MacroName(TopCall)) : x \in ReachFrom(x)

\* The full expansion of a call, defined on the tree alone: every call is
\* replaced by its own full expansion where the service expands it and is
\* kept where it does not. Defined when no chain from the call is infinite.
RECURSIVE Full(_), FullIn(_)
Full(call) ==
    LET e == db[MacroName(call)] IN
    IF e = None THEN None
    ELSE IF e.kind = "MACRO_CALL" THEN (IF Full(e) = None THEN e ELSE Full(e))
    ELSE FullIn(e)
FullIn(node) ==
    [node EXCEPT !.c =
        [i \in 1..Len(node.c) |->
            LET x == node.c[i] IN
            IF x.k = "token" THEN x
            ELSE IF x.kind = "MACRO_CALL" THEN (IF Full(x) = None THEN x ELSE Full(x))
            ELSE FullIn(x)]]

NoDuplicates(s) == \A i, j \in 1..Len(s) : s[i] = s[j] => i = j

(***************************************************************************)
(* C1. Failure of a nested expansion never fails the parent: when the      *)
(* one-level expansion of the call succeeds, expand_macro_recur returns a  *)
(* tree; every nested call that fails to expand is in it verbatim at the   *)
(* path it had in the one-level expansion, and every nested call that      *)
(* expands has been replaced there.                                        *)
(***************************************************************************)
C1_FailureContained ==
    (Returned /\ TopExpansion # None) =>
        /\ ret # None
        /\ IF TopExpansion.kind = "MACRO_CALL"
           THEN ~Expandable(TopExpansion) => ret = TopExpansion
           ELSE \A n \in CallsOf("exp", TopExpansion) :
                    IF Expandable(n.node)
                    THEN NodeAt(ret, n.path) # n.node
                    ELSE NodeAt(ret, n.path) = n.node

\* one sibling fails and the other expands
C1_Witness ==
    /\ Returned /\ TopExpansion # None /\ TopExpansion.kind # "MACRO_CALL"
    /\ \E a, b \in CallsOf("exp", TopExpansion) : ~Expandable(a.node) /\ Expandable(b.node)

(***************************************************************************)
(* C2. expand_macro returns None exactly when there is no name reference   *)
(* at the offset, the name reference is in no macro call, or the service   *)
(* fails on the outermost call; then nothing of a name/expansion pair is   *)
(* produced. Otherwise it returns the name and the rendered expansion.     *)
(***************************************************************************)
C2_AbsentExactlyWhen ==
    pc = "done" =>
        /\ ~result.some <=>
              \/ find_node_at_offset(position) = NoText
              \/ enclosing_macro_call(position) = None
              \/ TopExpansion = None
        /\ ~result.some => result = NoResult
        /\ result.some => /\ result.name = find_node_at_offset(position)
                          /\ result.expansion = res
                          /\ token_iter = <<>>

\* a pair is returned although a nested expansion failed
C2_Witness ==
    /\ pc = "done" /\ result.some
    /\ \E n \in CallsOf("exp", TopExpansion) : ~Expandable(n.node)

(***************************************************************************)
(* C3. The tree expand_macro_recur returns holds no macro call the service *)
(* can expand; the calls left in it are the ones the service fails on, and *)
(* they are verbatim.                                                      *)
(***************************************************************************)
C3_FullyExpanded ==
    (Returned /\ ret # None) =>
        \A n \in CallsOf("ret", ret) :
            /\ ~Expandable(n.node)
            /\ n.node = MacroCall(MacroName(n.node))

\* the root of the one-level expansion is a call, it expands, and a call
\* that cannot be expanded is left inside a block of the result
C3_Witness ==
    /\ Returned /\ ret # None
    /\ TopExpansion # None /\ TopExpansion.kind = "MACRO_CALL" /\ Expandable(TopExpansion)
    /\ \E n \in CallsOf("ret", ret) : Len(n.path) = 2

(***************************************************************************)
(* C4. Recursive collapse: when the root of the one-level expansion is a   *)
(* call that expands, the result is the nested result and the root is      *)
(* never entered into the replacement mapping; a chain A -> B -> C of      *)
(* bodies that are exactly one call returns exactly C's expansion.         *)
(***************************************************************************)
C4_RecursiveCollapse ==
    /\ \A i \in 1..Len(stack) : <<"exp", <<>>>> \notin DOMAIN stack[i].replaces
    /\ (Returned /\ TopExpansion # None /\ TopExpansion.kind = "MACRO_CALL"
            /\ Expandable(TopExpansion)) =>
          /\ ret = Full(TopExpansion)
          /\ LET b == db[MacroName(TopExpansion)] IN
             (b.kind = "MACRO_CALL" /\ db[MacroName(b)] = Leaf) => ret = Leaf

\* the chain foo -> bar -> baz -> fn b(){} has been expanded
C4_Witness ==
    /\ Returned /\ ret = Leaf
    /\ TopExpansion # None /\ TopExpansion.kind = "MACRO_CALL"
    /\ LET b == db[MacroName(TopExpansion)] IN
       b # None /\ b.kind = "MACRO_CALL" /\ db[MacroName(b)] = Leaf

(***************************************************************************)
(* C7. In every activation each macro call of the one-level expansion,     *)
(* the root included, is visited once, against the one-level expansion and *)
(* not against what replaced it; and the tree returned is the full         *)
(* expansion whatever the order of the visits.                             *)
(***************************************************************************)
C7_VisitedOnceAnyOrder ==
    /\ \A i \in 1..Len(stack) :
          LET f == stack[i] IN
          f.pc \in {"loop", "wait"} =>
              LET pending == [j \in 1..Len(f.children) |-> Key(f.children[j])]
                  all == f.visited \o pending
              IN  /\ NoDuplicates(all)
                  /\ Range(all) = {Key(n) : n \in CallsOf("exp", sema_expand(f.macro_call))}
    /\ Returned => ret = Full(TopCall)

\* the root was replaced in the loop, and elsewhere two calls were visited
\* last one first
C7_Witness ==
    /\ Returned /\ ret # None /\ order = "rev"
    /\ TopExpansion.kind = "MACRO_CALL" /\ ret # TopExpansion
    /\ Cardinality(CallsOf("exp", db[MacroName(TopExpansion)])) = 2

(***************************************************************************)
(* Vocabulary of the properties of insert_whitespaces.                     *)
(***************************************************************************)
\* how many tokens of syn the loop has consumed
Consumed == Len(syn) - Len(token_iter)
KindAt(i) == syn[i].kind
\* braces opened minus braces closed among the first j tokens
Depth(j) ==
    Cardinality({i \in 1..j : KindAt(i) = "L_CURLY"})
        - Cardinality({i \in 1..j : KindAt(i) = "R_CURLY"})
Balanced == (\A j \in 1..Len(syn) : Depth(j) >= 0) /\ Depth(Len(syn)) = 0
\* the brace at i opens a block that is still open after k tokens
OpenAt(i, k) == KindAt(i) = "L_CURLY" /\ \A j \in (i + 1)..k : Depth(j) >= Depth(i)
\* the brace at i is not immediately followed by a closing brace
NonEmptyAt(i) == i = Len(syn) \/ KindAt(i + 1) # "R_CURLY"
OpenNonEmpty(k) == Cardinality({i \in 1..k : OpenAt(i, k) /\ NonEmptyAt(i)})

EndsWith(s, t) == Len(s) >= Len(t) /\ SubSeq(s, Len(s) - Len(t) + 1, Len(s)) = t

(***************************************************************************)
(* C5 (as amended). For the tokens `fn f ( ) { let a = 0 ; a + 10 }` the   *)
(* rendering is `fn f(){`, with no blank before the brace because `)` is   *)
(* not text-like, then `let a = 0;` and `a+10` each on a line of its own   *)
(* behind two blanks, then `}` on a line of its own with no indentation.   *)
(***************************************************************************)
C5_BlockStructure ==
    (pc = "done" /\ syn = FnStream) =>
        result.expansion =
            <<"fn", " ", "f", "(", ")", "{", "\n",
              " ", " ", "let", " ", "a", " ", "=", " ", "0", ";", "\n",
              " ", " ", "a", "+", "10", "\n",
              "}">>

\* C5 as claimed: the same rendering with a single blank before the brace
C5_AsClaimed ==
    (pc = "done" /\ syn = FnStream) =>
        result.expansion =
            <<"fn", " ", "f", "(", ")", " ", "{", "\n",
              " ", " ", "let", " ", "a", " ", "=", " ", "0", ";", "\n",
              " ", " ", "a", "+", "10", "\n",
              "}">>

C5_Witness == pc = "done" /\ syn = FnStream /\ result.some

(***************************************************************************)
(* C6. An opening brace immediately followed by a closing brace is emitted *)
(* as `{` alone, with no blank before it, the closing brace follows it     *)
(* with nothing in between, and neither brace changes the indentation.     *)
(***************************************************************************)
C6_EmptyBlock ==
    [][(pc = "fmt" /\ token_iter # <<>>) =>
          LET token == Head(token_iter)
              next == peek(Tail(token_iter))
          IN  /\ (token.kind = "L_CURLY" /\ next = "R_CURLY") =>
                    (res' = Append(res, "{") /\ indent' = indent)
              /\ (token.kind = "R_CURLY" /\ last = "L_CURLY") =>
                    /\ EndsWith(res, <<"{">>)
                    /\ SubSeq(res', 1, Len(res) + 1) = Append(res, "}")
                    /\ indent' = indent]_vars

\* an empty block has been rendered inside a non-empty one
C6_Witness ==
    /\ pc = "fmt" /\ Consumed >= 3 /\ indent = 1
    /\ KindAt(Consumed - 1) = "L_CURLY" /\ KindAt(Consumed) = "R_CURLY"
    /\ EndsWith(res, <<"{", "}", "\n", " ", " ">>)

(***************************************************************************)
(* C9. A text-like token is emitted with one blank after it exactly when   *)
(* the next token is not punctuation or there is no next token, and with   *)
(* nothing after it otherwise; so a stream ending in a text-like token     *)
(* is rendered with a blank at the very end.                               *)
(***************************************************************************)
C9_SpaceAfterText ==
    [][/\ (pc = "fmt" /\ token_iter # <<>> /\ is_text(Head(token_iter).kind)) =>
             LET token == Head(token_iter)
                 next == peek(Tail(token_iter))
             IN  IF next = NoKind \/ ~is_punct(next)
                 THEN res' = res \o <<token.text, " ">>
                 ELSE res' = Append(res, token.text)
       /\ (pc' = "done" /\ syn # <<>> /\ is_text(KindAt(Len(syn)))) =>
             EndsWith(result'.expansion, <<syn[Len(syn)].text, " ">>)]_vars

\* a text-like token before punctuation, one before a token that is neither
\* text-like nor punctuation, and one at the very end
C9_Witness ==
    /\ pc = "done" /\ Len(syn) >= 5
    /\ is_text(KindAt(Len(syn)))
    /\ \E i \in 1..(Len(syn) - 1) : is_text(KindAt(i)) /\ is_punct(KindAt(i + 1))
    /\ \E i \in 1..(Len(syn) - 1) : is_text(KindAt(i)) /\ KindAt(i + 1) = "LIFETIME"

(***************************************************************************)
(* C10. The indentation counter is never negative; on a brace-balanced     *)
(* stream it is, after every token, the number of open non-empty blocks,   *)
(* a closing brace that decrements finds it at 1 or more, and it is 0      *)
(* after the last token.                                                   *)
(***************************************************************************)
C10_IndentBookkeeping ==
    pc \in {"fmt", "done"} =>
        /\ indent >= 0
        /\ Balanced =>
              /\ indent = OpenNonEmpty(Consumed)
              /\ (token_iter # <<>> /\ Head(token_iter).kind = "R_CURLY"
                    /\ last # "L_CURLY") => indent >= 1
              /\ token_iter = <<>> => indent = 0

\* two non-empty blocks are open in a balanced stream
C10_Witness ==
    pc = "fmt" /\ Balanced /\ indent = 2 /\ OpenNonEmpty(Consumed) = 2

(***************************************************************************)
(* C8. Nothing in expand_macro_recur bounds the recursion: the outermost   *)
(* call returns (a tree or None) exactly when every chain of nested        *)
(* invocations the service produces from it is finite; when some chain is  *)
(* infinite it never returns.                                              *)
(***************************************************************************)
C8_ReturnsIffFinite ==
    /\ (Located /\ ~Diverges) => <>Returned
    /\ Diverges => [](~Returned)

\* a self-recursive chain has filled the call stack the model follows
C8_Witness == Diverges /\ Len(stack) = MaxDepth /\ Top.pc = "loop"

====
